---- MODULE Spec2Model ----
(***************************************************************************)
(* Credit ledger and voice-generation task lifecycle of talkstudio-web.    *)
(*                                                                         *)
(* State: the User rows (credits), the CreditTransaction rows (ledger),    *)
(* the GeneratedAudio rows (tasks), the worker invocations in flight       *)
(* (jobs: the thread-pool worker _generate_in_background and the Celery    *)
(* worker smart_f5tts_generation_task, each with its program counter and   *)
(* its local variables), the clock read by timezone.now(), and the last    *)
(* response of the submission endpoint generate_speech.                    *)
(***************************************************************************)
EXTENDS Integers, Sequences, FiniteSets, TLC

\* ---------------------------------------------------------------- bounds
NumUsers == 1
MaxTasks == 2
MaxJobs == 2
MaxAdminOps == 1
MAX_TEXT_LENGTH == 1
MaxPayments == 2
MaxDeliveries == 2
MaxRequests == 2
MaxReviews == 2

\* ------------------------------------------------------ program constants
max_workers == 4
PROGRESS_CAP == 99
START_PROGRESS == 10
EARLY_PROGRESS == 20
LATE_PROGRESS == 80
DONE_PROGRESS == 100
AVERAGE_TASK_SECONDS == 30
ADMIN_CREDITS == 100

\* --------------------------------------------------------- input domains
UserIds == 1..NumUsers
None == 0
Rates == {1, 2}
FreeTrialChoices == {2}
TextLengths == 0..(MAX_TEXT_LENGTH + 1)
AdminAmounts == {1}
TIMEOUT_ERROR == "API request timed out after 300 seconds"
INTEGRITY_ERROR == "NOT NULL constraint failed: accounts_credittransaction.balance_after"
DATABASE_ERROR == "database is locked"
\* error texts the synthesis API can report; the text of an HTTP error body
\* or of an unsuccessful response is passed through unchanged, so it may be
\* the empty string
ApiErrors == {"", TIMEOUT_ERROR}

VARIABLES settings, users, ledger, tasks, jobs, now, resp, nops, poll,
          payments, manual, reviews

vars == <<settings, users, ledger, tasks, jobs, now, resp, nops, poll,
          payments, manual, reviews>>

\* the billing tables and the review requests in flight
billing == <<payments, manual, reviews>>

\* poll when the last step handled no status request
NoPoll == [task_id |-> 0]

\* ------------------------------------------------------------ User model
\* User.deduct_credits: the test `self.credits >= amount`
CanDeductAlways(credits, amount) == TRUE

CanDeduct(credits, amount) == credits >= amount

\* User.deduct_credits: the value of self.credits when the method returns
DeductTwice(credits, amount) ==
    IF CanDeduct(credits, amount) THEN credits - amount - amount ELSE credits

deduct_credits(credits, amount) ==
    IF CanDeduct(credits, amount) THEN credits - amount ELSE credits

\* User.add_credits: the value of self.credits when the method returns
add_credits(credits, amount) == credits + amount

\* a CreditTransaction row; task is the task whose worker wrote the row
\* (0 for rows written outside a worker)
Transaction(u, amt, type, bal, t) ==
    [user |-> u, amount |-> amt, transaction_type |-> type,
     balance_after |-> bal, task |-> t]

\* ------------------------------------------------ VoiceGenerationTracker
\* estimate_time: int(30 + text_length * 5.4)
estimate_time(n) == 30 + ((n * 54) \div 10)

\* a create_task whose row starts out `processing`
NewTaskProcessing(u, n, t) ==
    [user |-> u, characters_used |-> n, credits_used |-> n,
     status |-> "processing", progress |-> START_PROGRESS,
     estimated_time |-> estimate_time(n),
     created_at |-> t, started_at |-> t, completed_at |-> None,
     audio_file |-> None, error_message |-> ""]

\* create_task: the new GeneratedAudio row (model defaults for the rest)
NewTask(u, n, t) ==
    [user |-> u, characters_used |-> n, credits_used |-> n,
     status |-> "pending", progress |-> 0, estimated_time |-> estimate_time(n),
     created_at |-> t,
     started_at |-> 0, completed_at |-> 0, audio_file |-> 0,
     error_message |-> ""]

start_processing(ts, id, t) ==
    [ts EXCEPT ![id] = [@ EXCEPT !.status = "processing",
                                 !.started_at = t,
                                 !.progress = START_PROGRESS]]

Min(a, b) == IF a < b THEN a ELSE b

update_progress(ts, id, p) ==
    [ts EXCEPT ![id] = [@ EXCEPT !.progress = Min(p, PROGRESS_CAP)]]

mark_completed(ts, id, file, t) ==
    [ts EXCEPT ![id] = [@ EXCEPT !.status = "completed",
                                 !.progress = DONE_PROGRESS,
                                 !.completed_at = t,
                                 !.audio_file = file]]

\* a mark_failed that writes nothing
MarkFailedLost(ts, id, err, t) == ts

mark_failed(ts, id, err, t) ==
    [ts EXCEPT ![id] = [@ EXCEPT !.status = "failed",
                                 !.completed_at = t,
                                 !.error_message = err]]

\* --------------------------------------------------------------- helpers
TaskIds == 1..Len(tasks)
JobIds == 1..Len(jobs)
Registered == {u \in UserIds : users[u].registered}

SetPc(j, pc) == [jobs EXCEPT ![j].pc = pc]

\* worker threads of the pool that are running a job
Busy ==
    {j \in JobIds : jobs[j].kind = "thread" /\ jobs[j].pc \notin {"queued", "done", "lost"}}

NewJob(kind, t, credits, u) ==
    [kind |-> kind, task |-> t, credits |-> credits, user_id |-> u,
     pc |-> "queued", result |-> "none", error |-> "",
     user_credits |-> 0, deducted |-> FALSE]

\* ------------------------------------------------------------------ Init
Init ==
    /\ settings \in [CREDITS_PER_CHARACTER : Rates,
                     free_trial_credits : FreeTrialChoices,
                     is_available : BOOLEAN]
    /\ users = [u \in UserIds |-> [registered |-> FALSE, credits |-> 0]]
    /\ ledger = <<>>
    /\ tasks = <<>>
    /\ jobs = <<>>
    /\ now = 1
    /\ resp = "none"
    /\ nops = 0
    /\ poll = NoPoll
    /\ payments = <<>>
    /\ manual = <<>>
    /\ reviews = <<>>

\* ------------------------------------------------------- account actions
\* UserRegistrationSerializer.create
Register(u) ==
    /\ ~users[u].registered
    /\ users' = [users EXCEPT ![u] = [registered |-> TRUE,
                                      credits |-> settings.free_trial_credits]]
    /\ UNCHANGED <<settings, ledger, tasks, jobs, now, resp, nops>>
    /\ poll' = NoPoll
    /\ UNCHANGED billing

\* accounts.views.admin_add_credits
AdminAddCredits(u, amount) ==
    /\ u \in Registered
    /\ nops < MaxAdminOps
    /\ amount > 0
    /\ LET c == add_credits(users[u].credits, amount) IN
         /\ users' = [users EXCEPT ![u].credits = c]
         /\ ledger' = Append(ledger, Transaction(u, amount, "bonus", c, 0))
    /\ nops' = nops + 1
    /\ UNCHANGED <<settings, tasks, jobs, now, resp>>
    /\ poll' = NoPoll
    /\ UNCHANGED billing

\* UserAdmin.add_credits_100 for one selected user
AddCredits100(u) ==
    /\ u \in Registered
    /\ nops < MaxAdminOps
    /\ users' = [users EXCEPT ![u].credits = add_credits(@, ADMIN_CREDITS)]
    /\ nops' = nops + 1
    /\ UNCHANGED <<settings, ledger, tasks, jobs, now, resp>>
    /\ poll' = NoPoll
    /\ UNCHANGED billing

\* UserAdmin.remove_credits_100 for one selected user; a user with fewer
\* than 100 credits is skipped
RemoveCredits100(u) ==
    /\ u \in Registered
    /\ users[u].credits >= ADMIN_CREDITS
    /\ users' = [users EXCEPT ![u].credits = deduct_credits(@, ADMIN_CREDITS)]
    /\ UNCHANGED <<settings, ledger, tasks, jobs, now, resp, nops>>
    /\ poll' = NoPoll
    /\ UNCHANGED billing

\* ------------------------------------------------------------ submission
\* generate_speech: credits = len(text) * settings.CREDITS_PER_CHARACTER
CreditsNeeded(n) == n * settings.CREDITS_PER_CHARACTER

\* generate_speech: `user and user.credits < credits`
InsufficientNever(u, credits) == FALSE

Insufficient(u, credits) == u # None /\ users[u].credits < credits

\* a generate_speech that looks at the reference audio before the credits
ResponseReferenceFirst(u, n, hasRef) ==
    IF ~settings.is_available THEN "TTS API service not configured"
    ELSE IF n = 0 THEN "Text required"
    ELSE IF n > MAX_TEXT_LENGTH THEN "Text too long"
    ELSE IF ~hasRef THEN "Reference audio required"
    ELSE IF Insufficient(u, CreditsNeeded(n)) THEN "Insufficient credits"
    ELSE "ok"

\* generate_speech: the error of the response, "ok" when the task is accepted
Response(u, n, hasRef) ==
    IF ~settings.is_available THEN "TTS API service not configured"
    ELSE IF n = 0 THEN "Text required"
    ELSE IF n > MAX_TEXT_LENGTH THEN "Text too long"
    ELSE IF Insufficient(u, CreditsNeeded(n)) THEN "Insufficient credits"
    ELSE IF ~hasRef THEN "Reference audio required"
    ELSE "ok"

GenerateSpeech(u, n, hasRef) ==
    /\ u \in Registered \cup {None}
    /\ resp' = Response(u, n, hasRef)
    /\ IF Response(u, n, hasRef) = "ok"
       THEN /\ Len(tasks) < MaxTasks
            /\ Len(jobs) < MaxJobs
            /\ tasks' = Append(tasks, NewTask(u, n, now))
            /\ jobs' = Append(jobs, NewJob("thread", Len(tasks) + 1, CreditsNeeded(n), u))
            /\ now' = now + 1
       ELSE UNCHANGED <<tasks, jobs, now>>
    /\ UNCHANGED <<settings, users, ledger, nops>>
    /\ poll' = NoPoll
    /\ UNCHANGED billing

\* _generate_in_background is run a second time for a task id (a retry of
\* the whole completion path)
Retry(t) ==
    /\ t \in TaskIds
    /\ Len(jobs) < MaxJobs
    /\ jobs' = Append(jobs, NewJob("thread", t, CreditsNeeded(tasks[t].characters_used),
                                   tasks[t].user))
    /\ UNCHANGED <<settings, users, ledger, tasks, now, resp, nops>>
    /\ poll' = NoPoll
    /\ UNCHANGED billing

\* the broker delivers smart_f5tts_generation_task for a task id
CeleryDeliver(t) ==
    /\ t \in TaskIds
    /\ Len(jobs) < MaxJobs
    /\ jobs' = Append(jobs, NewJob("celery", t, CreditsNeeded(tasks[t].characters_used),
                                   tasks[t].user))
    /\ UNCHANGED <<settings, users, ledger, tasks, now, resp, nops>>
    /\ poll' = NoPoll
    /\ UNCHANGED billing

\* ---------------------------------------------------------- worker steps
StartProcessing(j) ==
    /\ jobs[j].pc = "queued"
    /\ jobs[j].kind = "thread" => Cardinality(Busy) < max_workers
    /\ tasks' = start_processing(tasks, jobs[j].task, now)
    /\ now' = now + 1
    /\ jobs' = SetPc(j, "progress20")
    /\ UNCHANGED <<settings, users, ledger, resp, nops>>
    /\ poll' = NoPoll
    /\ UNCHANGED billing

UpdateProgress20(j) ==
    /\ jobs[j].pc = "progress20"
    /\ tasks' = update_progress(tasks, jobs[j].task, EARLY_PROGRESS)
    /\ jobs' = SetPc(j, "generate")
    /\ UNCHANGED <<settings, users, ledger, now, resp, nops>>
    /\ poll' = NoPoll
    /\ UNCHANGED billing

\* the synthesis call returns success; update_progress(task_id, 80) follows
GenerateOk(j) ==
    /\ jobs[j].pc = "generate"
    /\ tasks' = update_progress(tasks, jobs[j].task, LATE_PROGRESS)
    /\ jobs' = [jobs EXCEPT ![j].pc = "mark_completed", ![j].result = "ok"]
    /\ UNCHANGED <<settings, users, ledger, now, resp, nops>>
    /\ poll' = NoPoll
    /\ UNCHANGED billing

\* the synthesis call returns {'success': False, 'error': err}: the thread
\* worker goes on to update_progress(task_id, 80) and its else branch, the
\* Celery worker raises Exception(err)
GenerateError(j, err) ==
    /\ jobs[j].pc = "generate"
    /\ IF jobs[j].kind = "thread"
       THEN /\ tasks' = update_progress(tasks, jobs[j].task, LATE_PROGRESS)
            /\ jobs' = [jobs EXCEPT ![j].pc = "mark_failed", ![j].result = "error",
                                    ![j].error = err]
       ELSE /\ jobs' = [jobs EXCEPT ![j].pc = "except", ![j].result = "error",
                                    ![j].error = err]
            /\ UNCHANGED tasks
    /\ UNCHANGED <<settings, users, ledger, now, resp, nops>>
    /\ poll' = NoPoll
    /\ UNCHANGED billing

MarkCompleted(j) ==
    /\ jobs[j].pc = "mark_completed"
    /\ tasks' = mark_completed(tasks, jobs[j].task, j, now)
    /\ now' = now + 1
    /\ jobs' = SetPc(j, IF jobs[j].user_id # None THEN "get_user" ELSE "done")
    /\ UNCHANGED <<settings, users, ledger, resp, nops>>
    /\ poll' = NoPoll
    /\ UNCHANGED billing

\* user = User.objects.get(id=user_id)
GetUser(j) ==
    /\ jobs[j].pc = "get_user"
    /\ jobs' = [jobs EXCEPT ![j].pc = "deduct",
                            ![j].user_credits = users[jobs[j].user_id].credits]
    /\ UNCHANGED <<settings, users, ledger, tasks, now, resp, nops>>
    /\ poll' = NoPoll
    /\ UNCHANGED billing

\* user.deduct_credits(credits): self.save() writes the worker's copy
DeductCredits(j) ==
    /\ jobs[j].pc = "deduct"
    /\ LET ok == CanDeduct(jobs[j].user_credits, jobs[j].credits)
           c == deduct_credits(jobs[j].user_credits, jobs[j].credits) IN
         /\ jobs' = [jobs EXCEPT ![j].pc = "transaction",
                                 ![j].user_credits = c,
                                 ![j].deducted = ok]
         /\ users' = IF ok THEN [users EXCEPT ![jobs[j].user_id].credits = c]
                     ELSE users
    /\ UNCHANGED <<settings, ledger, tasks, now, resp, nops>>
    /\ poll' = NoPoll
    /\ UNCHANGED billing

\* CreditTransaction.objects.create(...): the Celery worker passes no
\* balance_after, the insert violates NOT NULL and raises
CreateTransaction(j) ==
    /\ jobs[j].pc = "transaction"
    /\ IF jobs[j].kind = "thread"
       THEN /\ ledger' = Append(ledger, Transaction(jobs[j].user_id, -jobs[j].credits,
                                    "usage", jobs[j].user_credits, jobs[j].task))
            /\ jobs' = SetPc(j, "done")
       ELSE /\ jobs' = [jobs EXCEPT ![j].pc = "except", ![j].error = INTEGRITY_ERROR]
            /\ UNCHANGED ledger
    /\ UNCHANGED <<settings, users, tasks, now, resp, nops>>
    /\ poll' = NoPoll
    /\ UNCHANGED billing

\* a database call of the debit section (objects.get, save, create) raises,
\* e.g. OperationalError; control passes to the worker's except clause
DatabaseError(j) ==
    /\ jobs[j].pc \in {"get_user", "deduct", "transaction"}
    /\ jobs' = [jobs EXCEPT ![j].pc = "except", ![j].error = DATABASE_ERROR]
    /\ UNCHANGED <<settings, users, ledger, tasks, now, resp, nops>>
    /\ poll' = NoPoll
    /\ UNCHANGED billing

\* _generate_in_background, the branch `else` of `if result['success']`
MarkFailed(j) ==
    /\ jobs[j].pc = "mark_failed"
    /\ tasks' = mark_failed(tasks, jobs[j].task, jobs[j].error, now)
    /\ now' = now + 1
    /\ jobs' = SetPc(j, "done")
    /\ UNCHANGED <<settings, users, ledger, resp, nops>>
    /\ poll' = NoPoll
    /\ UNCHANGED billing

\* `except Exception as e: mark_failed(task_id, str(e))` of both workers
ExceptHandler(j) ==
    /\ jobs[j].pc = "except"
    /\ tasks' = mark_failed(tasks, jobs[j].task, jobs[j].error, now)
    /\ now' = now + 1
    /\ jobs' = SetPc(j, "done")
    /\ UNCHANGED <<settings, users, ledger, resp, nops>>
    /\ poll' = NoPoll
    /\ UNCHANGED billing

\* ------------------------------------------------------- status queries
\* the ids a client may ask about: every task id and one that names no task
QueryIds == 1..(MaxTasks + 1)

\* the `pending` rows of ts, whenever created
PendingAll(ts, id) == {i \in DOMAIN ts : ts[i].status = "pending"}

\* the `pending` rows of ts created strictly before row id
PendingBefore(ts, id) ==
    {i \in DOMAIN ts : ts[i].status = "pending" /\ ts[i].created_at < ts[id].created_at}

\* the rows of ts in status `processing`
Processing(ts) == {i \in DOMAIN ts : ts[i].status = "processing"}

\* a queue position that counts the pending rows only
QueuePositionIgnoringProcessing(ts, id) ==
    IF id \notin DOMAIN ts THEN 0
    ELSE IF ts[id].status \in {"processing", "completed", "failed"} THEN 0
    ELSE Cardinality(PendingBefore(ts, id))

\* get_queue_position over the rows ts; the bare `except` answers 0 for a
\* missing row
get_queue_position(ts, id) ==
    IF id \notin DOMAIN ts THEN 0
    ELSE IF ts[id].status \in {"processing", "completed", "failed"} THEN 0
    ELSE Cardinality(PendingBefore(ts, id)) + Cardinality(Processing(ts))

\* `queue_position * 30` when the task is queued, else 0
estimated_wait(queue_position) ==
    IF queue_position > 0 THEN queue_position * AVERAGE_TASK_SECONDS ELSE 0

\* `max(0, estimated_time - elapsed)` once the task has started and time has
\* passed, else the estimate as stored
remaining_time(task, t) ==
    IF task.started_at # None /\ t - task.started_at # 0
    THEN (IF task.estimated_time - (t - task.started_at) > 0
          THEN task.estimated_time - (t - task.started_at) ELSE 0)
    ELSE task.estimated_time

\* `task.audio_file.url if task.audio_file else None`
audio_url(file) == IF file = None THEN "null" ELSE "/media/" \o ToString(file)

\* a get_status without the `except`: the DoesNotExist of a missing row
\* reaches the caller
StatusRaising(ts, id, t) ==
    IF id \notin DOMAIN ts
    THEN [success |-> FALSE, error |-> "DoesNotExist"]
    ELSE [success |-> TRUE,
          status |-> ts[id].status,
          progress |-> ts[id].progress,
          estimated_time |-> ts[id].estimated_time,
          remaining_time |-> remaining_time(ts[id], t),
          audio_url |-> audio_url(ts[id].audio_file),
          queue_position |-> get_queue_position(ts, id),
          estimated_wait |-> estimated_wait(get_queue_position(ts, id))]

\* get_status over the rows ts at time t; the bare `except` turns the
\* DoesNotExist of a missing row into the not-found result
get_status(ts, id, t) ==
    IF id \notin DOMAIN ts
    THEN [success |-> FALSE, error |-> "Not found"]
    ELSE [success |-> TRUE,
          status |-> ts[id].status,
          progress |-> ts[id].progress,
          estimated_time |-> ts[id].estimated_time,
          remaining_time |-> remaining_time(ts[id], t),
          audio_url |-> audio_url(ts[id].audio_file),
          queue_position |-> get_queue_position(ts, id),
          estimated_wait |-> estimated_wait(get_queue_position(ts, id))]

\* a status query that stamps the row it reads
RowsTouchedByQuery(ts, id) ==
    IF id \in DOMAIN ts THEN [ts EXCEPT ![id].progress = None] ELSE ts

\* the task rows after a status query: the tracker's queries only read
RowsAfterQuery(ts, id) == ts

\* get_generation_progress: JsonResponse(VoiceGenerationTracker.get_status(id))
GetStatus(id) ==
    /\ poll' = [task_id |-> id, response |-> get_status(tasks, id, now)]
    /\ tasks' = RowsAfterQuery(tasks, id)
    /\ UNCHANGED <<settings, users, ledger, jobs, now, resp, nops>>
    /\ UNCHANGED billing

\* ------------------------------------------------------ gateway payments
PaymentMethods == {"paypal", "jazzcash", "easypaisa"}

\* the credits of the package being bought
PackageCredits == {1}

\* the Stripe payment intents a client may confirm
StripeIntents == {1}

PaymentIds == 1..Len(payments)

\* a Payment row; transaction_id is the Stripe intent (None for the other
\* gateways, whose rows are addressed by their id); deliveries counts the
\* callbacks handled for the row and awards the times its credits were added
\* to the balance
NewPayment(u, method, status, intent, credits, awards) ==
    [user |-> u, payment_method |-> method, status |-> status,
     transaction_id |-> intent, credits_awarded |-> credits,
     deliveries |-> 0, awards |-> awards]

\* _create_paypal_payment / _create_pakistani_payment: a `pending` row
CreatePayment(u, method, credits) ==
    /\ u \in Registered
    /\ Len(payments) < MaxPayments
    /\ payments' = Append(payments, NewPayment(u, method, "pending", None, credits, 0))
    /\ UNCHANGED <<settings, users, ledger, tasks, jobs, now, resp, nops, poll,
                   manual, reviews>>

\* status = 'completed', user.add_credits(credits_awarded) and the purchase
\* row of the ledger, for payment p
AwardPayment(p) ==
    LET u == payments[p].user
        c == add_credits(users[u].credits, payments[p].credits_awarded) IN
      /\ payments' = [payments EXCEPT ![p].status = "completed",
                                      ![p].deliveries = @ + 1,
                                      ![p].awards = @ + 1]
      /\ users' = [users EXCEPT ![u].credits = c]
      /\ ledger' = Append(ledger, Transaction(u, payments[p].credits_awarded,
                                              "purchase", c, None))

\* the callback changes the row's status only (or nothing)
NoAward(p, status) ==
    /\ payments' = [payments EXCEPT ![p].status = status, ![p].deliveries = @ + 1]
    /\ UNCHANGED <<users, ledger>>

\* paypal_return: a completed payment is only redirected; else the capture
\* result decides
PaypalOutcome(p, captured) ==
    IF payments[p].status = "completed" THEN NoAward(p, "completed")
    ELSE IF captured THEN AwardPayment(p)
    ELSE NoAward(p, "failed")

PaypalReturn(p, captured) ==
    /\ payments[p].payment_method = "paypal"
    /\ payments[p].deliveries < MaxDeliveries
    /\ PaypalOutcome(p, captured)
    /\ UNCHANGED <<settings, tasks, jobs, now, resp, nops, poll, manual, reviews>>

\* jazzcash_return / easypaisa_return: the gateway's status code decides, the
\* row's status is not looked at
ReturnOutcome(p, ok) == IF ok THEN AwardPayment(p) ELSE NoAward(p, "failed")

JazzcashReturn(p, ok) ==
    /\ payments[p].payment_method = "jazzcash"
    /\ payments[p].deliveries < MaxDeliveries
    /\ ReturnOutcome(p, ok)
    /\ UNCHANGED <<settings, tasks, jobs, now, resp, nops, poll, manual, reviews>>

EasypaisaReturn(p, ok) ==
    /\ payments[p].payment_method = "easypaisa"
    /\ payments[p].deliveries < MaxDeliveries
    /\ ReturnOutcome(p, ok)
    /\ UNCHANGED <<settings, tasks, jobs, now, resp, nops, poll, manual, reviews>>

\* confirm_stripe_payment for a succeeded intent: unless a completed row
\* with the intent's id exists, create the completed row, `user.credits +=
\* credits` and write the purchase row
ConfirmStripePayment(u, intent, credits) ==
    /\ u \in Registered
    /\ IF \E p \in PaymentIds : /\ payments[p].transaction_id = intent
                                /\ payments[p].status = "completed"
       THEN UNCHANGED <<payments, users, ledger>>
       ELSE /\ Len(payments) < MaxPayments
            /\ payments' = Append(payments,
                                  NewPayment(u, "stripe", "completed", intent, credits, 1))
            /\ users' = [users EXCEPT ![u].credits = @ + credits]
            /\ ledger' = Append(ledger, Transaction(u, credits, "purchase",
                                                    users[u].credits + credits, None))
    /\ UNCHANGED <<settings, tasks, jobs, now, resp, nops, poll, manual, reviews>>

\* StripeWebhookView._handle_successful_payment: Payment.objects.get(
\* transaction_id=..., status='pending'), DoesNotExist is passed over
StripeWebhook(intent) ==
    /\ IF \E p \in PaymentIds : /\ payments[p].transaction_id = intent
                                /\ payments[p].status = "pending"
       THEN LET p == CHOOSE q \in PaymentIds : /\ payments[q].transaction_id = intent
                                               /\ payments[q].status = "pending"
            IN AwardPayment(p)
       ELSE UNCHANGED <<payments, users, ledger>>
    /\ UNCHANGED <<settings, tasks, jobs, now, resp, nops, poll, manual, reviews>>

\* payment_success_page: a Stripe payment that is still pending and whose
\* checkout session is paid is completed; its credits are added unless a
\* purchase row of the same amount was written in the last five minutes
PaymentSuccessPage(p, paid) ==
    /\ IF payments[p].payment_method = "stripe" /\ payments[p].status = "pending" /\ paid
       THEN IF \E i \in DOMAIN ledger :
                   /\ ledger[i].user = payments[p].user
                   /\ ledger[i].transaction_type = "purchase"
                   /\ ledger[i].amount = payments[p].credits_awarded
            THEN NoAward(p, "completed")
            ELSE AwardPayment(p)
       ELSE UNCHANGED <<payments, users, ledger>>
    /\ UNCHANGED <<settings, tasks, jobs, now, resp, nops, poll, manual, reviews>>

\* ------------------------------------------------------- manual payments
RequestIds == 1..Len(manual)

ReviewIds == 1..Len(reviews)

\* a ManualPaymentRequest row; awards counts the times its credits were added
\* to the balance
NewRequest(u, credits) ==
    [user |-> u, status |-> "pending", credits_to_award |-> credits,
     credits_awarded |-> FALSE, awards |-> 0]

\* ManualPaymentRequestViewSet.create
SubmitManualPayment(u, credits) ==
    /\ u \in Registered
    /\ Len(manual) < MaxRequests
    /\ manual' = Append(manual, NewRequest(u, credits))
    /\ UNCHANGED <<settings, users, ledger, tasks, jobs, now, resp, nops, poll,
                   payments, reviews>>

\* a review request has loaded its copy of row r: self.get_object() of the
\* API actions, the iteration over queryset.filter(status='pending') of the
\* admin action
NewReview(kind, r) ==
    [kind |-> kind, request |-> r, status |-> manual[r].status,
     credits_awarded |-> manual[r].credits_awarded, pc |-> "loaded"]

BeginReview(kind, r) ==
    /\ Len(reviews) < MaxReviews
    /\ kind = "admin_approve" => manual[r].status = "pending"
    /\ reviews' = Append(reviews, NewReview(kind, r))
    /\ UNCHANGED <<settings, users, ledger, tasks, jobs, now, resp, nops, poll,
                   payments, manual>>

\* `if payment_request.status != 'pending'`: the status of the loaded copy
SeenPending(h) == reviews[h].status = "pending"

\* approve / approve_payments after the load: award the credits unless the
\* copy says they were awarded, create the tracking Payment, save the copy
\* with status 'approved'
FinishApprove(h) ==
    /\ reviews[h].pc = "loaded"
    /\ reviews[h].kind \in {"approve", "admin_approve"}
    /\ reviews' = [reviews EXCEPT ![h].pc = "done"]
    /\ LET r == reviews[h].request
           u == manual[r].user
           award == ~reviews[h].credits_awarded /\ manual[r].credits_to_award > 0 IN
         IF SeenPending(h)
         THEN /\ manual' = [manual EXCEPT
                               ![r].status = "approved",
                               ![r].credits_awarded = award \/ reviews[h].credits_awarded,
                               ![r].awards = IF award THEN @ + 1 ELSE @]
              /\ users' = IF award
                          THEN [users EXCEPT ![u].credits = @ + manual[r].credits_to_award]
                          ELSE users
              /\ payments' = IF award
                             THEN Append(payments,
                                         NewPayment(u, "manual", "completed", None,
                                                    manual[r].credits_to_award, 1))
                             ELSE payments
         ELSE UNCHANGED <<manual, users, payments>>
    /\ UNCHANGED <<settings, ledger, tasks, jobs, now, resp, nops, poll>>

\* reject after the load: save the copy with status 'rejected'
FinishReject(h) ==
    /\ reviews[h].pc = "loaded"
    /\ reviews[h].kind = "reject"
    /\ reviews' = [reviews EXCEPT ![h].pc = "done"]
    /\ LET r == reviews[h].request IN
         IF SeenPending(h)
         THEN manual' = [manual EXCEPT ![r].status = "rejected",
                                       ![r].credits_awarded = reviews[h].credits_awarded]
         ELSE UNCHANGED manual
    /\ UNCHANGED <<settings, users, ledger, tasks, jobs, now, resp, nops, poll, payments>>

\* reject_payments: queryset.filter(status='pending').update(status='rejected')
AdminRejectPayments(r) ==
    /\ manual' = IF manual[r].status = "pending"
                 THEN [manual EXCEPT ![r].status = "rejected"]
                 ELSE manual
    /\ UNCHANGED <<settings, users, ledger, tasks, jobs, now, resp, nops, poll,
                   payments, reviews>>

\* ------------------------------------------------- audio made by Gradio
\* the stored file of an audio that Gradio generated (no pool job wrote it)
GradioFile == MaxJobs + 1

\* GeneratedAudio.objects.create(...) of generate_audio_from_gradio: no
\* status is passed, so the row gets the model's default 'pending'
NewGradioAudio(u, units, credits, t) ==
    [user |-> u, characters_used |-> units, credits_used |-> credits,
     status |-> "pending", progress |-> 0, estimated_time |-> None,
     created_at |-> t, started_at |-> None, completed_at |-> None,
     audio_file |-> GradioFile, error_message |-> ""]

\* generate_audio_from_gradio for a known user, a non-empty text of `units`
\* units and an existing audio file; rate is platform_settings.credits_per_unit
GenerateAudioFromGradio(u, units, rate) ==
    /\ u \in Registered
    /\ units > 0
    /\ IF users[u].credits < units * rate
       THEN UNCHANGED <<tasks, users, ledger, now>>
       ELSE /\ Len(tasks) < MaxTasks
            /\ tasks' = Append(tasks, NewGradioAudio(u, units, units * rate, now))
            /\ users' = [users EXCEPT ![u].credits = deduct_credits(@, units * rate)]
            /\ ledger' = Append(ledger,
                                Transaction(u, -(units * rate), "usage",
                                            deduct_credits(users[u].credits, units * rate),
                                            Len(tasks) + 1))
            /\ now' = now + 1
    /\ UNCHANGED <<settings, jobs, resp, nops>>
    /\ poll' = NoPoll
    /\ UNCHANGED billing

\* every task is run once, by the job generate_speech submitted for it
NextOnce ==
    \/ \E u \in UserIds : Register(u)
    \/ \E u \in UserIds, a \in AdminAmounts : AdminAddCredits(u, a)
    \/ \E u \in UserIds : AddCredits100(u)
    \/ \E u \in UserIds : RemoveCredits100(u)
    \/ \E u \in UserIds \cup {None}, n \in TextLengths, r \in BOOLEAN : GenerateSpeech(u, n, r)
    \/ \E j \in JobIds : StartProcessing(j)
    \/ \E j \in JobIds : UpdateProgress20(j)
    \/ \E j \in JobIds : GenerateOk(j)
    \/ \E j \in JobIds, e \in ApiErrors : GenerateError(j, e)
    \/ \E j \in JobIds : MarkCompleted(j)
    \/ \E j \in JobIds : GetUser(j)
    \/ \E j \in JobIds : DeductCredits(j)
    \/ \E j \in JobIds : CreateTransaction(j)
    \/ \E j \in JobIds : DatabaseError(j)
    \/ \E j \in JobIds : MarkFailed(j)
    \/ \E j \in JobIds : ExceptHandler(j)

\* the same, and a task id may be run again or delivered to the Celery worker
Next ==
    \/ NextOnce
    \/ \E t \in TaskIds : Retry(t)
    \/ \E t \in TaskIds : CeleryDeliver(t)

Spec == Init /\ [][Next]_vars

SpecOnce == Init /\ [][NextOnce]_vars

\* one statement of the worker pool thread that runs job j
WorkerStep(j) ==
    /\ j \in JobIds
    /\ \/ StartProcessing(j)
       \/ UpdateProgress20(j)
       \/ GenerateOk(j)
       \/ \E e \in ApiErrors : GenerateError(j, e)
       \/ MarkCompleted(j)
       \/ GetUser(j)
       \/ DeductCredits(j)
       \/ CreateTransaction(j)
       \/ MarkFailed(j)
       \/ ExceptHandler(j)

\* every pool thread that can run its next statement eventually runs it (or
\* gets a database error); the synthesis call returns or times out
SpecFair == SpecOnce /\ \A j \in 1..MaxJobs : WF_vars(WorkerStep(j))

\* the server process dies: the pool is an in-process ThreadPoolExecutor, so
\* its running threads and its queued jobs are gone; the database rows stay
Crash ==
    /\ \E j \in JobIds : jobs[j].pc # "done"
    /\ jobs' = [j \in DOMAIN jobs |->
                  IF jobs[j].pc = "done" THEN jobs[j] ELSE [jobs[j] EXCEPT !.pc = "lost"]]
    /\ UNCHANGED <<settings, users, ledger, tasks, now, resp, nops>>
    /\ poll' = NoPoll
    /\ UNCHANGED billing

\* sign-up, submission, the thread-pool worker and the clients' status polls
NextStatus ==
    \/ \E u \in UserIds : Register(u)
    \/ \E u \in UserIds \cup {None}, n \in TextLengths, r \in BOOLEAN : GenerateSpeech(u, n, r)
    \/ \E j \in JobIds : StartProcessing(j)
    \/ \E j \in JobIds : UpdateProgress20(j)
    \/ \E j \in JobIds : GenerateOk(j)
    \/ \E j \in JobIds, e \in ApiErrors : GenerateError(j, e)
    \/ \E j \in JobIds : MarkCompleted(j)
    \/ \E j \in JobIds : GetUser(j)
    \/ \E j \in JobIds : DeductCredits(j)
    \/ \E j \in JobIds : CreateTransaction(j)
    \/ \E j \in JobIds : DatabaseError(j)
    \/ \E j \in JobIds : MarkFailed(j)
    \/ \E j \in JobIds : ExceptHandler(j)
    \/ \E id \in QueryIds : GetStatus(id)

SpecStatus == Init /\ [][NextStatus]_vars

\* sign-up, submission, the thread-pool worker and deaths of the server process
NextCrash ==
    \/ \E u \in UserIds : Register(u)
    \/ \E u \in UserIds \cup {None}, n \in TextLengths, r \in BOOLEAN : GenerateSpeech(u, n, r)
    \/ \E j \in JobIds : WorkerStep(j)
    \/ \E j \in JobIds : DatabaseError(j)
    \/ Crash

\* the pool threads of a living process are scheduled fairly
SpecCrash == Init /\ [][NextCrash]_vars /\ \A j \in 1..MaxJobs : WF_vars(WorkerStep(j))

\* sign-up, the creation of payments and the gateways' callbacks
NextPayments ==
    \/ \E u \in UserIds : Register(u)
    \/ \E u \in UserIds, m \in PaymentMethods, c \in PackageCredits : CreatePayment(u, m, c)
    \/ \E p \in PaymentIds, captured \in BOOLEAN : PaypalReturn(p, captured)
    \/ \E p \in PaymentIds, ok \in BOOLEAN : JazzcashReturn(p, ok)
    \/ \E p \in PaymentIds, ok \in BOOLEAN : EasypaisaReturn(p, ok)
    \/ \E u \in UserIds, i \in StripeIntents, c \in PackageCredits : ConfirmStripePayment(u, i, c)
    \/ \E i \in StripeIntents : StripeWebhook(i)
    \/ \E p \in PaymentIds, paid \in BOOLEAN : PaymentSuccessPage(p, paid)

SpecPayments == Init /\ [][NextPayments]_vars

\* sign-up, manual payment requests and their reviews by the admins
NextManual ==
    \/ \E u \in UserIds : Register(u)
    \/ \E u \in UserIds, c \in PackageCredits : SubmitManualPayment(u, c)
    \/ \E r \in RequestIds, k \in {"approve", "reject", "admin_approve"} : BeginReview(k, r)
    \/ \E h \in ReviewIds : FinishApprove(h)
    \/ \E h \in ReviewIds : FinishReject(h)
    \/ \E r \in RequestIds : AdminRejectPayments(r)

SpecManual == Init /\ [][NextManual]_vars

\* sign-up, both ways a GeneratedAudio row is created, and the pool worker
NextGradio ==
    \/ \E u \in UserIds : Register(u)
    \/ \E u \in UserIds \cup {None}, n \in TextLengths, r \in BOOLEAN : GenerateSpeech(u, n, r)
    \/ \E u \in UserIds, n \in TextLengths, rate \in Rates : GenerateAudioFromGradio(u, n, rate)
    \/ \E j \in JobIds : WorkerStep(j)
    \/ \E j \in JobIds : DatabaseError(j)

SpecGradio == Init /\ [][NextGradio]_vars

\* ================================================================ claims
\* the usage rows of the ledger written for task t
UsageEntries(t) ==
    {i \in DOMAIN ledger : ledger[i].task = t /\ ledger[i].transaction_type = "usage"}

\* the jobs run for task t
JobsOf(t) == {j \in JobIds : jobs[j].task = t}

\* job j is between its claim of the task and its end
Active(j) == jobs[j].pc \notin {"queued", "done"}

RECURSIVE SumAmounts(_, _)
\* the sum of the signed amounts of the first n ledger rows of user u
SumAmounts(u, n) ==
    IF n = 0 THEN 0
    ELSE SumAmounts(u, n - 1) + (IF ledger[n].user = u THEN ledger[n].amount ELSE 0)

\* C1: every owned task that is `completed`, once every worker run for it has
\* ended (a second run of the completion path included), has exactly one
\* `usage` ledger row.
C1_ExactlyOnceDebit ==
    \A t \in TaskIds :
        (/\ tasks[t].user # None
         /\ tasks[t].status = "completed"
         /\ \A j \in JobsOf(t) : jobs[j].pc = "done")
        => Cardinality(UsageEntries(t)) = 1

\* C2: the balance of every account is >= 0 in every state, and a
\* deduct_credits call whose amount exceeds the credits of the User object it
\* is called on returns False and changes neither the object nor the stored
\* balance.
C2_NoNegativeBalance ==
    /\ [](\A u \in UserIds : users[u].credits >= 0)
    /\ [][\A j \in JobIds :
            (/\ jobs[j].pc = "deduct"
             /\ jobs'[j].pc # "deduct"
             /\ jobs[j].credits > jobs[j].user_credits)
            => (/\ ~jobs'[j].deducted
                /\ jobs'[j].user_credits = jobs[j].user_credits
                /\ users' = users)]_vars

\* C2 witness: a worker's debit was rejected and the balance is what it was.
C2_Witness ==
    \E j \in JobIds :
        /\ jobs[j].pc = "transaction"
        /\ ~jobs[j].deducted
        /\ jobs[j].credits > jobs[j].user_credits
        /\ users[jobs[j].user_id].credits >= 0

\* C3: for every account the signed amounts of its ledger rows sum to its
\* balance.
C3_LedgerReplay ==
    \A u \in Registered : SumAmounts(u, Len(ledger)) = users[u].credits

\* C4: once the stored status of a task is `completed` or `failed`, no step
\* changes it.
C4_TerminalImmutable ==
    [][\A t \in TaskIds :
          tasks[t].status \in {"completed", "failed"}
          => tasks'[t].status = tasks[t].status]_vars

\* C5: a start_processing call on a task that another worker has already
\* claimed and is still processing changes nothing of the task row.
C5_SingleClaim ==
    [][\A j \in JobIds :
          (/\ jobs[j].pc = "queued"
           /\ jobs'[j].pc # "queued"
           /\ tasks[jobs[j].task].status = "processing"
           /\ \E i \in JobsOf(jobs[j].task) : i # j /\ Active(i))
          => tasks' = tasks]_vars

\* C6: a submission by an authenticated account whose balance is smaller than
\* credits_needed is rejected and leaves tasks, jobs, balances and ledger
\* unchanged.
C6_RejectedSubmissionChangesNothing ==
    [][\A u \in UserIds, n \in TextLengths, r \in BOOLEAN :
          (/\ GenerateSpeech(u, n, r)
           /\ users[u].credits < CreditsNeeded(n))
          => (/\ resp' # "ok"
              /\ UNCHANGED <<tasks, jobs, users, ledger>>)]_vars

\* C6 witness: a submission was rejected for insufficient credits.
C6_Witness ==
    /\ resp = "Insufficient credits"
    /\ \E u \in Registered : users[u].credits < CreditsNeeded(MAX_TEXT_LENGTH)

\* the one task was submitted by a registered account, ran once on the thread
\* pool with a successful synthesis call and no exception, and nothing else
\* touched the account
SingleRun ==
    /\ Len(tasks) = 1
    /\ Len(jobs) = 1
    /\ nops = 0
    /\ tasks[1].user # None
    /\ jobs[1].pc = "done"
    /\ jobs[1].result = "ok"
    /\ jobs[1].error = ""

C8_SynthesisFailure ==
    \A j \in JobIds :
        (/\ jobs[j].result = "error"
         /\ jobs[j].pc = "done"
         /\ JobsOf(jobs[j].task) = {j})
        => (/\ tasks[jobs[j].task].status = "failed"
            /\ tasks[jobs[j].task].error_message # ""
            /\ ~jobs[j].deducted
            /\ UsageEntries(jobs[j].task) = {})

\* C9: the amount of the usage ledger row of a task equals the credits_used
\* stored on the task row.
C9_UsageEqualsCreditsUsed ==
    \A t \in TaskIds : \A i \in UsageEntries(t) :
        -ledger[i].amount = tasks[t].credits_used

\* C10: when deduct_credits rejected the debit, the worker's next step appends
\* no ledger row and leaves the task `completed`.
C10_NoEntryWithoutDebit ==
    [][\A j \in JobIds :
          (/\ jobs[j].pc = "transaction"
           /\ jobs'[j].pc # "transaction"
           /\ ~jobs[j].deducted)
          => (/\ ledger' = ledger
              /\ users' = users
              /\ tasks'[jobs[j].task].status = tasks[jobs[j].task].status)]_vars

\* job j has executed user.deduct_credits
Debited(j) == jobs[j].pc = "transaction" \/ jobs[j].deducted

\* C11: when two tasks of one account whose costs together fit in the sign-up
\* balance have both passed their debit on the worker threads, and nothing
\* else changed the balance, the balance is the sign-up balance minus both
\* costs, whatever the interleaving of the reads and writes.
C11_NoLostUpdate ==
    \A j1 \in JobIds, j2 \in JobIds :
        (/\ j1 # j2
         /\ jobs[j1].task # jobs[j2].task
         /\ jobs[j1].user_id # None
         /\ jobs[j1].user_id = jobs[j2].user_id
         /\ Debited(j1) /\ Debited(j2)
         /\ jobs[j1].credits + jobs[j2].credits <= settings.free_trial_credits
         /\ nops = 0)
        => users[jobs[j1].user_id].credits =
               settings.free_trial_credits - jobs[j1].credits - jobs[j2].credits

\* the status request handled in the last step asked about task id
Polled(id) == poll.task_id = id

\* the queue position the specification gives: 0 for a terminal task,
\* otherwise the pending tasks created before it plus the processing tasks
ReferencePosition(id) ==
    IF tasks[id].status \in {"completed", "failed"} THEN 0
    ELSE Cardinality({i \in TaskIds : /\ tasks[i].status = "pending"
                                      /\ tasks[i].created_at < tasks[id].created_at})
         + Cardinality({i \in TaskIds : tasks[i].status = "processing"})

\* the queue position of the code: 0 for a processing or terminal task,
\* otherwise the pending tasks created before it plus the processing tasks
WaitingPosition(id) ==
    IF tasks[id].status # "pending" THEN 0
    ELSE Cardinality({i \in TaskIds : /\ tasks[i].status = "pending"
                                      /\ tasks[i].created_at < tasks[id].created_at})
         + Cardinality({i \in TaskIds : tasks[i].status = "processing"})

C13_QueueMonotonic ==
    \A a \in TaskIds, b \in TaskIds :
        (/\ tasks[a].status = "pending" /\ tasks[b].status = "pending"
         /\ tasks[a].user = tasks[b].user
         /\ tasks[a].created_at < tasks[b].created_at
         /\ \A i \in TaskIds : tasks[i].status # "processing")
        => get_queue_position(tasks, b) > get_queue_position(tasks, a)

\* C13 witness: two pending tasks of one registered account, none processing.
C13_Witness ==
    /\ Len(tasks) = 2
    /\ tasks[1].user \in UserIds
    /\ tasks[1].user = tasks[2].user
    /\ tasks[1].status = "pending" /\ tasks[2].status = "pending"
    /\ get_queue_position(tasks, 1) = 0
    /\ get_queue_position(tasks, 2) = 1

\* C14: the status of an id that names no task is the not-found result.
C14_NotFound ==
    \A id \in QueryIds \ TaskIds :
        Polled(id) => poll.response = [success |-> FALSE, error |-> "Not found"]

\* C14 witness: an id that names no task was asked about while the store
\* holds a task.
C14_Witness ==
    /\ poll.task_id \in QueryIds \ TaskIds
    /\ tasks # <<>>
    /\ ~poll.response.success

\* C15: a status query, of an existing id or not, leaves every task row,
\* every balance and the ledger unchanged.
C15_QueriesReadOnly ==
    [][\A id \in QueryIds :
          GetStatus(id) => /\ tasks' = tasks
                           /\ users' = users
                           /\ ledger' = ledger]_vars

\* C15 witness: the status of a processing task was asked for.
C15_Witness ==
    \E id \in TaskIds :
        /\ Polled(id)
        /\ poll.response.success
        /\ poll.response.status = "processing"
        /\ poll.response.progress = EARLY_PROGRESS

\* C16: an accepted submission appends exactly one task row, `pending` with
\* progress 0, no start or completion timestamp and no result pointer, hands
\* exactly one not yet started job for that task to the pool, and leaves the
\* earlier rows and jobs, the balances and the ledger unchanged.
C16_AcceptedSubmission ==
    [][\A u \in UserIds \cup {None}, n \in TextLengths, r \in BOOLEAN :
          (GenerateSpeech(u, n, r) /\ resp' = "ok")
          => (/\ Len(tasks') = Len(tasks) + 1
              /\ SubSeq(tasks', 1, Len(tasks)) = tasks
              /\ tasks'[Len(tasks')].user = u
              /\ tasks'[Len(tasks')].status = "pending"
              /\ tasks'[Len(tasks')].progress = 0
              /\ tasks'[Len(tasks')].started_at = None
              /\ tasks'[Len(tasks')].completed_at = None
              /\ tasks'[Len(tasks')].audio_file = None
              /\ Len(jobs') = Len(jobs) + 1
              /\ SubSeq(jobs', 1, Len(jobs)) = jobs
              /\ jobs'[Len(jobs')].task = Len(tasks')
              /\ jobs'[Len(jobs')].pc = "queued"
              /\ users' = users
              /\ ledger' = ledger)]_vars

\* C16 witness: the second submission of an account was accepted while its
\* first task was being processed.
C16_Witness ==
    /\ resp = "ok"
    /\ Len(tasks) = 2
    /\ tasks[1].status = "processing"
    /\ tasks[2].status = "pending"
    /\ tasks[2].user \in UserIds
    /\ jobs[2].pc = "queued"
    /\ ledger = <<>>

\* C17: mark_completed applied to a task that is already `completed` leaves
\* its row (completed_at, audio_file and the rest) as the first completion
\* wrote it.
C17_CompleteIdempotent ==
    [][\A j \in JobIds :
          (MarkCompleted(j) /\ tasks[jobs[j].task].status = "completed")
          => tasks'[jobs[j].task] = tasks[jobs[j].task]]_vars

\* C18: a task that is `pending` or `processing` has progress within 0..99,
\* and progress 100 is stored only on a `completed` task.
C18_ProgressRange ==
    \A t \in TaskIds :
        /\ tasks[t].status \in {"pending", "processing"}
               => tasks[t].progress \in 0..PROGRESS_CAP
        /\ tasks[t].progress = DONE_PROGRESS => tasks[t].status = "completed"

\* C19: an update_progress call of a worker on a task that is not
\* `processing` leaves the task's row unchanged.
C19_ProgressOnlyWhileProcessing ==
    [][\A j \in JobIds :
          (/\ UpdateProgress20(j) \/ GenerateOk(j) \/ GenerateError(j, jobs'[j].error)
           /\ jobs[j].kind = "thread"
           /\ tasks[jobs[j].task].status # "processing")
          => tasks'[jobs[j].task] = tasks[jobs[j].task]]_vars

\* C20: a `failed` task has a non-empty error text, an empty result pointer
\* and a status whose audio_url is null.
C20_FailedHasErrorAndNoAudio ==
    \A t \in TaskIds :
        tasks[t].status = "failed"
        => (/\ tasks[t].error_message # ""
            /\ tasks[t].audio_file = None
            /\ get_status(tasks, t, now).audio_url = audio_url(None))

\* C21: a task for which a worker decremented the balance has stored status
\* `completed`: no charged task is `pending`, `processing` or `failed`.
C21_ChargedTaskIsCompleted ==
    \A j \in JobIds :
        jobs[j].deducted => tasks[jobs[j].task].status = "completed"

\* C22: of two completed tasks of one account that both have a usage row, the
\* one whose completion was recorded first has the earlier usage row.
C22_DebitsInCompletionOrder ==
    \A a \in TaskIds, b \in TaskIds :
        (/\ tasks[a].user # None
         /\ tasks[a].user = tasks[b].user
         /\ tasks[a].status = "completed" /\ tasks[b].status = "completed"
         /\ tasks[a].completed_at < tasks[b].completed_at)
        => \A i \in UsageEntries(a), k \in UsageEntries(b) : i < k

\* the text of a submission is non-empty and within the maximum length
TextValid(n) == n > 0 /\ n <= MAX_TEXT_LENGTH

C24_EveryTaskTerminates ==
    \A t \in 1..MaxTasks :
        (t \in TaskIds)
            ~> (t \in TaskIds /\ tasks[t].status \in {"completed", "failed"})

\* C24 witness: the job of a task whose synthesis call timed out has ended
\* and the task is `failed`.
C24_Witness ==
    \E j \in JobIds :
        /\ jobs[j].error = TIMEOUT_ERROR
        /\ jobs[j].pc = "done"
        /\ tasks[jobs[j].task].status = "failed"

\* C25: a task that is `processing` while every job for it died with the
\* server process eventually is `pending` again.
C25_StuckTaskIsRequeued ==
    \A t \in 1..MaxTasks :
        (/\ t \in TaskIds
         /\ tasks[t].status = "processing"
         /\ \A j \in JobsOf(t) : jobs[j].pc = "lost")
        ~> (t \in TaskIds /\ tasks[t].status = "pending")

\* C26: the credits of every Payment are added to the balance at most once,
\* however many callbacks are delivered for it.
C26_PaymentAwardedOnce ==
    \A p \in PaymentIds : payments[p].awards <= 1

\* C27: a manual payment request that is `approved` or `rejected` keeps that
\* status in every later step, and its credits are added to the balance at
\* most once.
C27_ManualDecidedOnce ==
    [][\A r \in RequestIds :
          /\ manual[r].status # "pending" => manual'[r].status = manual[r].status
          /\ manual'[r].awards <= 1]_vars

\* ledger rows i < k are consecutive rows of one account
ConsecutiveEntries(i, k) ==
    /\ i < k
    /\ ledger[i].user = ledger[k].user
    /\ \A m \in (i + 1)..(k - 1) : ledger[m].user # ledger[i].user

\* the newest ledger row of account u, 0 if it has none
NewestEntry(u) ==
    IF \E i \in DOMAIN ledger : ledger[i].user = u
    THEN CHOOSE i \in DOMAIN ledger :
             /\ ledger[i].user = u
             /\ \A m \in DOMAIN ledger : ledger[m].user = u => m <= i
    ELSE 0

\* C28: the ledger rows of every account form a chain: the balance_after of
\* a row is the balance_after of the account's row before it plus the row's
\* signed amount, and once every worker that debited has written its row
\* the newest row's balance_after is the current balance.
C28_LedgerChain ==
    /\ \A i \in DOMAIN ledger, k \in DOMAIN ledger :
           ConsecutiveEntries(i, k)
           => ledger[k].balance_after = ledger[i].balance_after + ledger[k].amount
    /\ \A u \in UserIds :
           (/\ NewestEntry(u) # 0
            /\ \A j \in JobIds : jobs[j].deducted => UsageEntries(jobs[j].task) # {})
           => ledger[NewestEntry(u)].balance_after = users[u].credits

\* job j is the only job that ran for the one task of a registered account,
\* it has ended, no database error hit it and nothing else touched the account
OnlyRun(j) ==
    /\ Len(tasks) = 1
    /\ nops = 0
    /\ jobs[j].user_id # None
    /\ jobs[j].pc = "done"
    /\ jobs[j].error # DATABASE_ERROR
    /\ \A i \in JobIds \ {j} : jobs[i].pc = "queued"

\* what a run of job j by _generate_in_background ends with: `completed`, the
\* balance less the credits and one usage row when the synthesis succeeded;
\* `failed`, the balance untouched and no row when it did not
ThreadOutcome(j) ==
    IF jobs[j].result = "ok"
    THEN [status |-> "completed",
          credits |-> settings.free_trial_credits - jobs[j].credits,
          usage |-> <<-jobs[j].credits>>]
    ELSE [status |-> "failed", credits |-> settings.free_trial_credits, usage |-> <<>>]

\* the task status, the balance and the amounts of the ledger rows after job j
Outcome(j) ==
    [status |-> tasks[jobs[j].task].status,
     credits |-> users[jobs[j].user_id].credits,
     usage |-> [i \in DOMAIN ledger |-> ledger[i].amount]]

\* C29: a run of smart_f5tts_generation_task ends with the task status, the
\* balance and the ledger rows that a run of _generate_in_background for the
\* same task, owner, credits and synthesis outcome ends with.
C29_WorkersEquivalent ==
    \A j \in JobIds :
        (OnlyRun(j) /\ jobs[j].kind = "celery") => Outcome(j) = ThreadOutcome(j)

\* C30: every row that is `pending` has a job waiting for it in the worker
\* pool, so it will be started.
C30_PendingHasJob ==
    \A t \in TaskIds :
        tasks[t].status = "pending" => \E j \in JobsOf(t) : jobs[j].pc = "queued"

====
